---- MODULE Spec2Model ----
(***************************************************************************)
(* StorageHelper<T>, its storage adapters and the aggregated file store    *)
(* LensLocalStorage, in the two revisions the repository carries:          *)
(*   "gated"  src/src/renderer/utils/createStorage.ts with                 *)
(*            src/src/renderer/local-storage.ts  (write driven by the      *)
(*            box observer, gated on `initialized`)                        *)
(*   "eager"  src/unnamed/part_000 with src/unnamed/part_001  (set() and   *)
(*            clear() call the adapter themselves)                         *)
(* One action is one synchronous handler run: the JavaScript event loop    *)
(* runs a handler to completion, and init() is split at its await.         *)
(***************************************************************************)
EXTENDS Integers, Sequences, FiniteSets, TLC

\* ------------------------------------------------------------------ bounds
MaxInFlight == 2       \* init() calls suspended at their await at one time

\* ------------------------------------------------------------------ values
Null == [t |-> "null"]
Undef == [t |-> "undefined"]
Obj(x, y) == [t |-> "obj", a |-> x, b |-> y]
Records == {Obj(x, y) : x \in {0, 1}, y \in {2, 3}}
Values == Records \cup {Null, Undef}

\* value != null  (loose inequality: neither null nor undefined)
hasValue(value) == value \notin {Null, Undef}

\* lodash isEqual on the value domain (structural)
isEqual(x, y) == x = y

\* comparer.shallow of mobx on the value domain: null and undefined differ,
\* two plain records are equal when every own field is
shallow(x, y) == x = y

\* value ?? fallback
Coalesce(value, fallback) == IF hasValue(value) THEN value ELSE fallback

Keys == {"k1", "k2"}
Namespaces == {"c1", "c2"}
key == "k1"            \* StorageHelper.key
clusterId == "c1"      \* getHostedClusterId() at createStorage()

\* ------------------------------------------------- plain JS records / maps
EmptyRec == [x \in {} |-> Null]
Put(rec, k, v) == [x \in (DOMAIN rec) \cup {k} |-> IF x = k THEN v ELSE rec[x]]
Del(rec, k) == [x \in (DOMAIN rec) \ {k} |-> rec[x]]
\* rec[k] of JavaScript: undefined for a missing property
Prop(rec, k) == IF k \in DOMAIN rec THEN rec[k] ELSE Undef

\* ------------------------------------------------ JSON text (localStorage)
\* A stored string is either the JSON text of a value or a text JSON.parse
\* rejects.  JSON.stringify(undefined) is undefined, which
\* localStorage.setItem stores as the text "undefined".
JsonText(v) == [text |-> "json", of |-> v]
BadText == [text |-> "undefined", of |-> Undef]

\* String(value) in place of JSON.stringify(value): "[object Object]"
stringify_toString(v) == BadText

stringify(v) == IF v = Undef THEN BadText ELSE JsonText(v)
parseThrows(s) == s.text # "json"
parse(s) == s.of

VARIABLES
  revision,      \* "gated" | "eager": which revision of the sources runs
  defaultValue,  \* StorageHelper.defaultValue
  data,          \* StorageHelper.data (the observable box), its current value
  initialized,   \* StorageHelper.initialized
  storage,       \* StorageHelper.storage: the bound adapter
  inits,         \* init() calls suspended at their await, oldest first
  state,         \* LensLocalStorage.state: namespace -> record
  storePhase,    \* LensLocalStorage.init(): "unloaded" not run yet, "loaded" ran
  file,          \* the document of the file storage (conf)
  ls,            \* window.localStorage: key -> stored text
  lastOp         \* ghost: what the last handler run did

vars == <<revision, defaultValue, data, initialized, storage, inits,
          state, storePhase, file, ls, lastOp>>

\* ------------------------------------------------------------------ world
\* A handler run threads a "world" through the calls it makes: the mutable
\* program state plus the log of what this run did at the adapter.
\*   applied how many times this run applied a loaded value with set()
\*   writes  adapter write calls (setItem / removeItem), in call order
\*   hooks   calls of storage.onChange?.(value, oldValue): the values passed
\*   saves   documents handed to the file-write primitive
\*   threw   an exception is propagating to the caller of the handler
\*   caught  an exception was caught and logged inside the handler
\*   stale   setItem was called while get() did not answer the value written
\*   fail    input of the run: the adapter's write (setItem/removeItem) throws
\*   snap    content of the object a get() of this run returned to the caller
\*   snapLive  that object is the very object the box holds (no copy made)
World == [data |-> data, initialized |-> initialized, state |-> state,
          file |-> file, ls |-> ls, applied |-> 0,
          writes |-> <<>>, hooks |-> <<>>, saves |-> <<>>,
          threw |-> FALSE, caught |-> FALSE, stale |-> FALSE, fail |-> FALSE,
          snap |-> Undef, snapLive |-> FALSE]

\* the same, for a run during which the adapter's write throws
Failing(f) == [World EXCEPT !.fail = f]

\* ------------------------------------------- LensLocalStorage, gated rev.
toJSON(st) == [c \in DOMAIN st |-> [k \in DOMAIN st[c] |-> st[c][k]]]

saveToFile(w, doc) == [w EXCEPT !.file = doc, !.saves = Append(@, doc)]

\* reaction(() => this.toJSON(), state => this.saveToFile(state)): runs when
\* the action that changed the map ends; it exists only once init() bound it.
\* Every map.set() installs a fresh observable record, so the shallow
\* comparison of two toJSON() results never suppresses the run.
bound == storePhase # "unloaded"

bindAutoSave(w) == IF bound THEN saveToFile(w, toJSON(w.state)) ELSE w

getState(st, c) == IF c \in DOMAIN st THEN st[c] ELSE EmptyRec

\* an updater that assigns whatever it is given: `state[key] = value`
updater_tombstone(rec, k, value) == Put(rec, k, value)

\* the updater createLocalStorageAdapter.setItem passes to setState
updater(rec, k, value) == IF hasValue(value) THEN Put(rec, k, value) ELSE Del(rec, k)

\* setState whose updater runs on an empty record, not on the namespace's
setState_dropsSiblings(w, c, k, value) ==
  LET nextState == updater(EmptyRec, k, value)
  IN  bindAutoSave([w EXCEPT !.state = Put(@, c, nextState)])

setState(w, c, k, value) ==
  LET nextState == updater(getState(w.state, c), k, value)
  IN  bindAutoSave([w EXCEPT !.state = Put(@, c, nextState)])

\* ------------------------------------------- LensLocalStorage, eager rev.
storeGetItem(st, c, k) == IF c \in DOMAIN st THEN Prop(st[c], k) ELSE Undef

\* BaseStore.saveToFile: hands the document to the file storage
baseSaveToFile(w, doc) == [w EXCEPT !.file = doc, !.saves = Append(@, doc)]

\* setItem that builds the map anew around the one namespace it wrote
storeSetItem_replaces(w, c, k, value) ==
  LET storage0 == IF c \in DOMAIN w.state THEN w.state[c] ELSE EmptyRec
      storage1 == IF hasValue(value) THEN Put(storage0, k, value) ELSE Del(storage0, k)
      w1 == [w EXCEPT !.state = Put(EmptyRec, c, storage1)]
  IN  baseSaveToFile(w1, toJSON(w1.state))

storeSetItem(w, c, k, value) ==
  LET storage0 == IF c \in DOMAIN w.state THEN w.state[c] ELSE EmptyRec
      storage1 == IF hasValue(value) THEN Put(storage0, k, value) ELSE Del(storage0, k)
      w1 == [w EXCEPT !.state = Put(@, c, storage1)]
  IN  baseSaveToFile(w1, toJSON(w1.state))

\* --------------------------------------------------------------- adapters
\* storage.backend     "file": the namespaced file adapter of createStorage()
\*                     "local": localStorageAdapter
\* storage.removeItem  the adapter defines the optional removeItem
Adapters == [backend : {"file", "local"}, removeItem : BOOLEAN]

\* the adapters the sources ship: those of the eager revision define
\* removeItem, those of the gated revision do not
ShippedAdapter(rev, be) == [backend |-> be, removeItem |-> (rev = "eager")]

\* an adapter a caller passes to configure(): the shipped one without its
\* optional removeItem
CustomAdapter(be) == [backend |-> be, removeItem |-> FALSE]

\* localStorage.getItem(key): null when absent; JSON.parse(null) is null
lsGetItem(store, k) ==
  IF k \notin DOMAIN store THEN [value |-> Null, threw |-> FALSE]
  ELSE IF parseThrows(store[k]) THEN [value |-> Undef, threw |-> TRUE]
  ELSE [value |-> parse(store[k]), threw |-> FALSE]

\* storage.getItem(this.key): the value returned, or threw
getItem(w) ==
  IF storage.backend = "local" THEN lsGetItem(w.ls, key)
  ELSE IF revision = "gated"
       THEN [value |-> Prop(getState(w.state, clusterId), key), threw |-> FALSE]
       ELSE [value |-> storeGetItem(w.state, clusterId, key), threw |-> FALSE]

\* ------------------------------------------------------- StorageHelper.get
\* gated: toJS(this.data.get())
get(w) == w.data

\* getStorageValue(): a synchronous read; undefined when empty or on error
getStorageValue(w) ==
  LET r == getItem(w)
  IN  IF ~r.threw /\ hasValue(r.value) THEN r.value ELSE Undef

getE(w) ==
  IF hasValue(w.data) THEN w.data
  ELSE Coalesce(getStorageValue(w), defaultValue)

Get(w) == IF revision = "gated" THEN get(w) ELSE getE(w)

lsSetItem(w, k, value) ==
  IF revision = "gated"
  THEN IF hasValue(value)
       THEN [w EXCEPT !.ls = Put(@, k, stringify(value))]
       ELSE [w EXCEPT !.ls = Del(@, k)]
  ELSE [w EXCEPT !.ls = Put(@, k, stringify(value))]

\* storage.setItem(this.key, value)
setItem(w, value) ==
  LET w1 == [w EXCEPT !.writes = Append(@, [op |-> "setItem", value |-> value]),
                      !.stale = @ \/ (Get(w) # value)]
  IN  IF w.fail THEN [w1 EXCEPT !.threw = TRUE]
      ELSE IF storage.backend = "local" THEN lsSetItem(w1, key, value)
      ELSE IF revision = "gated" THEN setState(w1, clusterId, key, value)
      ELSE storeSetItem(w1, clusterId, key, value)

\* storage.removeItem(this.key)
removeItem(w) ==
  LET w1 == [w EXCEPT !.writes = Append(@, [op |-> "removeItem", value |-> Undef])]
  IN  IF w.fail THEN [w1 EXCEPT !.threw = TRUE]
      ELSE IF storage.backend = "local" THEN [w1 EXCEPT !.ls = Del(@, key)]
      ELSE storeSetItem(w1, clusterId, key, Null)

\* storage.onChange?.(value, oldValue): the call reaches the hook of an
\* adapter that defines one
adapterOnChange(w, value, oldValue) ==
  [w EXCEPT !.hooks = Append(@, value)]

\* ------------------------------------------ StorageHelper, gated revision
\* onChange with the gate inverted: `if (this.initialized) return`
onChange_gateInverted(w, value, oldValue) ==
  IF w.initialized THEN w
  ELSE setItem(adapterOnChange(w, value, oldValue), value)

\* onChange without its gate: every change is handed to the adapter
onChange_ungated(w, value, oldValue) ==
  setItem(adapterOnChange(w, value, oldValue), value)

\* onChange(value, oldValue), called by the observer of the box
onChange(w, value, oldValue) ==
  IF ~w.initialized THEN w
  ELSE setItem(adapterOnChange(w, value, oldValue), value)

\* a box without a comparer: every set() stores and notifies
boxSet_noComparer(w, value) ==
  onChange([w EXCEPT !.data = value], value, w.data)

\* this.data.set(value): the box keeps the old value when the comparer says
\* equal, otherwise stores the new one and runs its observer synchronously
boxSet(w, value) ==
  IF shallow(w.data, value) THEN w
  ELSE onChange([w EXCEPT !.data = value], value, w.data)

set(w, value) == boxSet(w, value)

clear(w) == boxSet(w, Null)

\* ------------------------------------------ StorageHelper, eager revision
\* onChange(change), called by the observer of the box; options.onChange is
\* not configured by any caller in the sources
onChangeE(w, value, oldValue) ==
  IF ~hasValue(oldValue) THEN w
  ELSE adapterOnChange(w, value, oldValue)

boxSetE(w, value) ==
  IF shallow(w.data, value) THEN w
  ELSE onChangeE([w EXCEPT !.data = value], value, w.data)

\* try { setItem; data.set } catch { log }
setE(w, value) ==
  LET w1 == setItem(w, value)
  IN  IF w1.threw THEN [w1 EXCEPT !.threw = FALSE, !.caught = TRUE]
      ELSE boxSetE(w1, value)

clearE(w) ==
  LET w1 == IF storage.removeItem THEN removeItem(w) ELSE setItem(w, Undef)
  IN  IF w1.threw THEN [w1 EXCEPT !.threw = FALSE, !.caught = TRUE]
      ELSE boxSetE(w1, Null)

\* ---------------------------------------------------------- both revisions
Set(w, value) == IF revision = "gated" THEN set(w, value) ELSE setE(w, value)
Clear(w) == IF revision = "gated" THEN clear(w) ELSE clearE(w)

\* ------------------------------------------------------------------- init
\* initResume without its try/catch: a failed load rejects init()
initResume_noCatch(w, loaded) ==
  IF loaded.threw THEN [w EXCEPT !.threw = TRUE]
  ELSE LET notEmpty == hasValue(loaded.value)
           notDefault == ~isEqual(loaded.value, defaultValue)
           w1 == IF notEmpty /\ notDefault
                 THEN set([w EXCEPT !.applied = @ + 1], loaded.value)
                 ELSE w
       IN  [w1 EXCEPT !.initialized = TRUE]

\* The part of init() after the await; loaded is what getItem produced.
initResume(w, loaded) ==
  IF loaded.threw THEN [w EXCEPT !.caught = TRUE]
  ELSE LET notEmpty == hasValue(loaded.value)
           notDefault == ~isEqual(loaded.value, defaultValue)
           w1 == IF notEmpty /\ notDefault
                 THEN set([w EXCEPT !.applied = @ + 1], loaded.value)
                 ELSE w
       IN  IF w1.threw THEN [w1 EXCEPT !.threw = FALSE, !.caught = TRUE]
           ELSE [w1 EXCEPT !.initialized = TRUE]

\* initResumeE whose catch block also resets the flag
initResumeE_resets(w, loaded) ==
  IF loaded.threw THEN [w EXCEPT !.caught = TRUE, !.initialized = FALSE]
  ELSE IF hasValue(loaded.value)
       THEN [setE([w EXCEPT !.applied = @ + 1], loaded.value)
               EXCEPT !.initialized = TRUE]
       ELSE w

initResumeE(w, loaded) ==
  IF loaded.threw THEN [w EXCEPT !.caught = TRUE]
  ELSE IF hasValue(loaded.value)
       THEN [setE([w EXCEPT !.applied = @ + 1], loaded.value)
               EXCEPT !.initialized = TRUE]
       ELSE w

InitResumeOp(w, loaded) ==
  IF revision = "gated" THEN initResume(w, loaded) ELSE initResumeE(w, loaded)

\* ------------------------------------------------------------------ merge
\* What callers pass to merge(): a function that assigns one field of the
\* draft, a function (or literal) that yields a replacement, or a function
\* that throws.
NoUpdater == [kind |-> "none", field |-> "a", to |-> 0, value |-> Undef]
Assign(f, x) == [kind |-> "assign", field |-> f, to |-> x, value |-> Undef]
Return(v) == [kind |-> "return", field |-> "a", to |-> 0, value |-> v]
Throw == [kind |-> "throw", field |-> "a", to |-> 0, value |-> Undef]
Updaters == {Assign("a", 1), Assign("b", 3), Return(Obj(1, 2)), Throw}

\* produce whose result is dropped: the caller goes on with the base
produce_keepsBase(base, u) ==
  CASE u.kind = "throw" -> [value |-> base, threw |-> TRUE]
    [] u.kind = "return" -> [value |-> u.value, threw |-> FALSE]
    [] OTHER ->
         IF ~hasValue(base) THEN [value |-> base, threw |-> TRUE]
         ELSE [value |-> base, threw |-> FALSE]

\* immer produce(base, updater): the next value; base itself is never written.
\* Assigning a property of null/undefined is a TypeError.
produce(base, u) ==
  CASE u.kind = "throw" -> [value |-> base, threw |-> TRUE]
    [] u.kind = "return" -> [value |-> u.value, threw |-> FALSE]
    [] OTHER ->
         IF ~hasValue(base) THEN [value |-> base, threw |-> TRUE]
         ELSE [value |-> [base EXCEPT ![u.field] = u.to], threw |-> FALSE]

\* gated: get() hands out toJS copies; no try/catch around produce
merge(w, u) ==
  LET currentValue == get(w)
      r == produce(currentValue, u)
  IN  IF r.threw THEN [w EXCEPT !.threw = TRUE] ELSE set(w, r.value)

\* eager: toJS(this.get()) is the copy produce works on; try/catch around all
mergeE(w, u) ==
  LET currentValue == getE(w)
      r == produce(currentValue, u)
  IN  IF r.threw THEN [w EXCEPT !.caught = TRUE] ELSE setE(w, r.value)

Merge(w, u) == IF revision = "gated" THEN merge(w, u) ELSE mergeE(w, u)

\* const x = helper.get(): gated returns toJS(...), a copy; eager returns the
\* box's own object when the box is not empty
TakeSnapshot(w) ==
  [w EXCEPT !.snap = Get(w),
            !.snapLive = (revision = "eager" /\ hasValue(w.data))]

\* ----------------------------------------------------------- initial state
Defaults == {Undef, Obj(0, 2)}
OtherRec == Obj(1, 3)
\* what the backend holds for (clusterId, key) when the helper is built
Stored == {"absent", "default", "other", "corrupt"}
StoredValue(d, s) ==
  CASE s = "default" -> d
    [] s = "other" -> OtherRec
    [] OTHER -> Undef

\* the document on disk: the helper's entry plus entries of another key and
\* of another namespace
Document(v) ==
  LET own == IF hasValue(v) THEN Put(EmptyRec, key, v) ELSE EmptyRec
  IN  Put(Put(EmptyRec, clusterId, Put(own, "k2", Obj(0, 3))),
          "c2", Put(EmptyRec, key, Obj(1, 2)))

LocalStore(v, s) ==
  IF s = "corrupt" THEN Put(EmptyRec, key, BadText)
  ELSE IF hasValue(v) THEN Put(EmptyRec, key, JsonText(v)) ELSE EmptyRec

NoOp == [name |-> "construct", value |-> Undef, value2 |-> Undef,
         upd |-> NoUpdater, loadThrew |-> FALSE, before |-> Undef,
         initBefore |-> FALSE, inFlight |-> 0, applied |-> 0,
         changed |-> FALSE, firstChanged |-> FALSE, untouched |-> FALSE,
         writes |-> <<>>, hooks |-> <<>>, saves |-> 0,
         threw |-> FALSE, caught |-> FALSE, stale |-> FALSE,
         failed |-> FALSE, snap |-> Undef,
         ns |-> "", k |-> "", stateBefore |-> EmptyRec]

\* what the constructor leaves in the box
Seed == IF revision = "gated" THEN defaultValue ELSE Undef

\* State after `new StorageHelper(key, defaultValue, options)`, built once
\* the application has run LensLocalStorage.init(): the gated
\* constructor seeds the box with defaultValue before the observer exists,
\* the eager one leaves the box empty; autoInit calls init(), which runs up
\* to its await.
Init ==
  /\ revision \in {"gated", "eager"}
  /\ defaultValue \in Defaults
  /\ \E s \in Stored, autoInit \in BOOLEAN, be \in {"file", "local"} :
       LET v == StoredValue(defaultValue, s)
           doc == Document(IF be = "file" THEN v ELSE Undef)
           lst == IF be = "local" THEN LocalStore(v, s) ELSE EmptyRec
           w0 == [state |-> doc, ls |-> lst]
       IN  /\ be = "file" => s # "corrupt"
           /\ storePhase = "loaded"
           /\ file = doc
           /\ state = doc
           /\ ls = lst
           /\ storage = ShippedAdapter(revision, be)
           /\ inits = IF autoInit THEN <<getItem(w0)>> ELSE <<>>
  /\ data = Seed
  /\ initialized = FALSE
  /\ lastOp = NoOp

\* ---------------------------------------------------------------- actions
SetValues == {Obj(1, 2), Obj(0, 3)}

\* The ghost record of a handler run that started in the current state and
\* ended in world w.  Fields a handler does not set keep their NoOp value:
\*   initBefore  initialized when the run started
\*   changed     the run changed the value of the box
\*   saves       number of documents handed to the file-write primitive
\*   stale       a set or merge called setItem before the box held the value
Done(name, w) ==
  [NoOp EXCEPT !.name = name,
               !.initBefore = initialized,
               !.changed = (w.data # data),
               !.applied = w.applied,
               !.writes = w.writes, !.hooks = w.hooks, !.saves = Len(w.saves),
               !.threw = w.threw, !.caught = w.caught,
               !.stale = (w.stale /\ name \in {"set", "setset", "merge"}),
               !.failed = (w.fail /\ w.writes # <<>>)]

Commit(w) ==
  /\ data' = w.data
  /\ initialized' = w.initialized
  /\ state' = w.state
  /\ file' = w.file
  /\ ls' = w.ls

\* init() up to its await: returns at once when initialized, otherwise calls
\* getItem (load / getStorageValueAsync) and suspends
CallInit ==
  /\ IF initialized
     THEN UNCHANGED inits
     ELSE /\ Len(inits) < MaxInFlight
          /\ inits' = Append(inits, getItem(World))
  /\ lastOp' = [Done("init", World) EXCEPT !.inFlight = Len(inits)]
  /\ UNCHANGED <<revision, defaultValue, data, initialized, storage,
                 state, storePhase, file, ls>>

\* init() after its await, for the oldest suspended call
InitResume ==
  /\ inits # <<>>
  /\ \E f \in {FALSE} :
     LET loaded == Head(inits)
         w == InitResumeOp(Failing(f), loaded)
     IN  /\ Commit(w)
         /\ lastOp' = [Done("initResume", w) EXCEPT !.value = loaded.value,
                                                   !.loadThrew = loaded.threw,
                                                   !.untouched = (data = Seed)]
  /\ inits' = Tail(inits)
  /\ UNCHANGED <<revision, defaultValue, storage, storePhase>>

DoSet ==
  \E v \in SetValues, f \in BOOLEAN :
    LET w == Set(Failing(f), v)
    IN  /\ Commit(w)
        /\ lastOp' = [Done("set", w) EXCEPT !.value = v]
        /\ UNCHANGED <<revision, defaultValue, storage, inits, storePhase>>

\* set(v1); set(v2) in one synchronous run
DoSetSet ==
  \E v1 \in SetValues, v2 \in SetValues, f \in {FALSE} :
    LET w1 == Set(Failing(f), v1)
        w == IF w1.threw THEN w1 ELSE Set(w1, v2)
    IN  /\ Commit(w)
        /\ lastOp' = [Done("setset", w) EXCEPT !.value = v1, !.value2 = v2,
                                               !.firstChanged = (v1 # data)]
        /\ UNCHANGED <<revision, defaultValue, storage, inits, storePhase>>

\* const x = get(); merge(u)
DoMerge ==
  \E u \in Updaters, f \in BOOLEAN :
    LET w == Merge(TakeSnapshot(Failing(f)), u)
    IN  /\ Commit(w)
        /\ lastOp' = [Done("merge", w) EXCEPT !.upd = u, !.before = Get(World),
                                              !.snap = w.snap]
        /\ UNCHANGED <<revision, defaultValue, storage, inits, storePhase>>

DoClear ==
  \E f \in BOOLEAN :
    LET w == Clear(Failing(f))
    IN  /\ Commit(w)
        /\ lastOp' = Done("clear", w)
        /\ UNCHANGED <<revision, defaultValue, storage, inits, storePhase>>

\* configure({ storage, observable }): swaps the adapter and re-creates the
\* box around its current value; nothing is notified
Configure ==
  \E s \in {CustomAdapter(storage.backend),
             ShippedAdapter(revision, storage.backend)} :
    /\ storage' = s
    /\ lastOp' = Done("configure", World)
    /\ UNCHANGED <<revision, defaultValue, data, initialized, inits,
                   state, storePhase, file, ls>>

\* LensLocalStorage.init(): load() replaces the map by the document on disk,
\* then the autosave reaction is bound
StoreInit ==
  /\ ~bound
  /\ state' = file
  /\ storePhase' = "loaded"
  /\ lastOp' = Done("storeInit", World)
  /\ UNCHANGED <<revision, defaultValue, data, initialized, storage, inits,
                 file, ls>>

Next ==
  \/ CallInit
  \/ InitResume
  \/ DoSet
  \/ DoSetSet
  \/ DoMerge
  \/ DoClear
  \/ Configure

Spec == Init /\ [][Next]_vars

TypeOK ==
  /\ data \in Values
  /\ initialized \in BOOLEAN
  /\ Len(inits) <= MaxInFlight

\* ------------------------------------------- the aggregated store by itself
\* LensLocalStorage as the application's helpers drive it, from the moment
\* the singleton is constructed: the map is empty and nothing is bound until
\* init() has loaded the document on disk.
StoreValues == {Obj(1, 2), Obj(0, 3), Null, Undef}
DiskDocuments == {EmptyRec, Document(Undef), Document(OtherRec)}

InitStore ==
  /\ revision \in {"gated", "eager"}
  /\ storePhase = "unloaded"
  /\ state = EmptyRec
  /\ file \in DiskDocuments
  /\ defaultValue = Undef
  /\ data = Undef
  /\ initialized = FALSE
  /\ storage = ShippedAdapter(revision, "file")
  /\ inits = <<>>
  /\ ls = EmptyRec
  /\ lastOp = NoOp

\* setItem(key, value) / removeItem(key) of the file adapter some helper of
\* namespace c holds
StoreWrite ==
  \E c \in Namespaces, k \in Keys, v \in StoreValues :
    LET w == IF revision = "gated" THEN setState(World, c, k, v)
             ELSE storeSetItem(World, c, k, v)
    IN  /\ state' = w.state
        /\ file' = w.file
        /\ lastOp' = [Done("storeWrite", w) EXCEPT !.value = v, !.ns = c, !.k = k,
                                                   !.stateBefore = state]
        /\ UNCHANGED <<revision, defaultValue, data, initialized, storage,
                       inits, storePhase, ls>>

StoreNext ==
  \/ StoreInit
  \/ StoreWrite

StoreSpec == InitStore /\ [][StoreNext]_vars

\* ================================================================ claims
ValueOps == {"set", "merge", "clear"}

\* the write wr persists value v (a null value is persisted as a removal)
Carries(wr, v) ==
  IF hasValue(v) THEN wr.op = "setItem" /\ wr.value = v
  ELSE wr.op = "removeItem" \/ ~hasValue(wr.value)

\* C1: after init() resolves, get() is the backend's value V when V was
\* non-null and not deep-equal to defaultValue at call time, get() is still
\* defaultValue otherwise, and init() alone wrote nothing to the backend.
C1_InitLoadsWithoutWrite ==
  (lastOp.name = "initResume" /\ ~lastOp.loadThrew /\ ~lastOp.initBefore) =>
    LET V == lastOp.value
        differs == hasValue(V) /\ ~isEqual(V, defaultValue)
    IN  /\ differs => Get(World) = V
        /\ (~differs /\ lastOp.untouched) => Get(World) = defaultValue
        /\ lastOp.writes = <<>>

\* C2: while initialized is false, no value change (the constructor's seed,
\* the value init() applies, a set/merge/clear before init() completes)
\* invokes the adapter's setItem/removeItem or its onChange hook.
C2_NoWriteBeforeInitialized ==
  (~lastOp.initBefore
     /\ lastOp.name \in {"construct", "initResume", "setset"} \cup ValueOps) =>
    lastOp.writes = <<>> /\ lastOp.hooks = <<>>

\* C3: init() is single-flight: a call made while another call is awaiting
\* getItem is a no-op (it does not call getItem), and the loaded value is
\* applied at most once (an init() that resumes on an initialized helper
\* applies nothing).
C3_SingleFlight ==
  /\ (lastOp.name = "init" /\ lastOp.inFlight > 0) => Len(inits) = lastOp.inFlight
  /\ (lastOp.name = "initResume" /\ lastOp.initBefore) => lastOp.applied = 0

\* C4: once initialized, every set, merge or clear that changes the
\* in-memory value triggers the adapter's onChange hook (when defined) and a
\* write of the new value, each exactly once.
C4_ChangeTriggersHookAndWrite ==
  (lastOp.initBefore /\ lastOp.name \in ValueOps /\ lastOp.changed) =>
    /\ Len(lastOp.writes) = 1
    /\ Carries(lastOp.writes[1], data)
    /\ lastOp.hooks = <<data>>

\* C5: in every quiescent state after init() resolved, whatever set, merge
\* or clear calls were made before, during or after init(), the adapter's
\* getItem(key) returns the value get() returns; an absent backend entry
\* matches only defaultValue or the null sentinel.
C5_BackendMatchesMemory ==
  (initialized /\ inits = <<>> /\ ~lastOp.failed) =>
    LET r == getItem(World)
    IN  /\ ~r.threw
        /\ IF hasValue(r.value) THEN r.value = Get(World)
           ELSE ~hasValue(Get(World)) \/ Get(World) = defaultValue

\* C6: a helper built with autoInit false returns get() = defaultValue while
\* neither init() nor set() has been called, whatever the backend holds.
C6_FreshGetIsDefault ==
  (lastOp.name = "construct" /\ inits = <<>>) => Get(World) = defaultValue

\* C7: when the getItem call of an init() attempt completes without failure,
\* initialized is true once init() resolves, whether the value was absent,
\* equal to defaultValue, or a different value.
C7_InitializedAfterAnswer ==
  (lastOp.name = "initResume" /\ ~lastOp.loadThrew) => initialized

\* C8: initialized is monotonic: once true, no init (failing or not),
\* configure, set, merge or clear makes it false again.
C8_InitializedMonotonic == [][initialized => initialized']_vars

\* a failing init() resumed on a helper that was already initialized
C8_Witness ==
  initialized /\ lastOp.name = "initResume" /\ lastOp.loadThrew /\ lastOp.initBefore

WriteOf(v) == [op |-> "setItem", value |-> v]

Merged(X, u) == [X EXCEPT ![u.field] = u.to]

MergeCase ==
  /\ lastOp.name = "merge" /\ lastOp.initBefore /\ ~lastOp.failed
  /\ lastOp.upd.kind = "assign" /\ hasValue(lastOp.before)

C11_ClearEmpties ==
  (lastOp.name = "clear" /\ ~lastOp.failed) =>
    LET r == getItem(World)
    IN  /\ ~hasValue(Get(World))
        /\ ~r.threw /\ ~hasValue(r.value)
        /\ \A i \in 1..Len(lastOp.writes) :
             IF storage.removeItem THEN lastOp.writes[i].op = "removeItem"
             ELSE /\ lastOp.writes[i].op = "setItem"
                  /\ ~hasValue(lastOp.writes[i].value)

\* the value a set, merge or clear recorded in lastOp asked for
Requested ==
  CASE lastOp.name = "set" -> lastOp.value
    [] lastOp.name = "clear" -> Null
    [] lastOp.name = "merge" -> produce(lastOp.before, lastOp.upd).value
    [] OTHER -> Undef

\* C12: when the adapter's write fails during a set, merge or clear on an
\* initialized helper, the failure is caught and not propagated to the
\* caller, and the in-memory value is the newly requested value afterwards.
C12_WriteFailureKeepsValue ==
  (lastOp.name \in ValueOps /\ lastOp.initBefore /\ lastOp.failed) =>
    /\ ~lastOp.threw
    /\ data = Requested

\* C13: when getItem throws during init() (malformed stored JSON), init()
\* resolves without throwing to its caller, the in-memory value is left as
\* it was, so that get() still answers defaultValue on a helper nothing else
\* touched, and no backend write is performed.
C13_FailedLoadKeepsDefault ==
  (lastOp.name = "initResume" /\ lastOp.loadThrew) =>
    /\ ~lastOp.threw
    /\ ~lastOp.changed
    /\ lastOp.untouched => Get(World) = defaultValue
    /\ lastOp.writes = <<>>

\* an init() whose getItem threw has resolved on a helper nothing else touched
C13_Witness ==
  /\ lastOp.name = "initResume" /\ lastOp.loadThrew /\ lastOp.caught
  /\ lastOp.untouched /\ ~lastOp.initBefore
  /\ hasValue(defaultValue)

\* C14: when the updater passed to merge() throws, the error propagates to
\* the caller of merge(), and the in-memory value and the backend entry are
\* left unchanged; no other operation (init, get, set, clear) surfaces an
\* error to its caller.
C14_OnlyMergeThrows ==
  /\ (lastOp.name = "merge" /\ lastOp.upd.kind = "throw") =>
       (lastOp.threw /\ ~lastOp.changed /\ lastOp.writes = <<>>)
  /\ lastOp.name \in {"init", "initResume", "set", "setset", "clear"} =>
       ~lastOp.threw

\* C19: set/merge calls take effect on the in-memory value synchronously and
\* in call order, and the write of a change happens only after the in-memory
\* mutation: whenever setItem is invoked for a change, get() already answers
\* the value being written, and the values written follow the call order.
C19_WriteAfterMemory ==
  /\ lastOp.name \in {"set", "setset", "merge"} => ~lastOp.stale
  /\ (lastOp.name = "set" /\ ~lastOp.failed) => data = lastOp.value
  /\ lastOp.name = "setset" =>
       /\ data = lastOp.value2
       /\ lastOp.writes \in {<<>>, <<WriteOf(lastOp.value)>>, <<WriteOf(lastOp.value2)>>,
                             <<WriteOf(lastOp.value), WriteOf(lastOp.value2)>>}

\* every entry of doc other than the helper's own (clusterId, key) is the
\* one the document held when the helper was built
SiblingsKept(doc) ==
  \A c \in Namespaces, k \in Keys :
    <<c, k>> # <<clusterId, key>> =>
      Prop(getState(doc, c), k) = Prop(getState(Document(Undef), c), k)

\* the last run was a set(v) that wrote v through the adapter
WroteSet ==
  /\ lastOp.name = "set" /\ ~lastOp.failed
  /\ lastOp.writes = <<WriteOf(lastOp.value)>>

C15_NamespaceIsolation ==
  lastOp.name = "storeWrite" =>
    /\ \A B \in Namespaces \ {lastOp.ns} :
         getState(state, B) = getState(lastOp.stateBefore, B)
    /\ getState(state, lastOp.ns) =
         updater(getState(lastOp.stateBefore, lastOp.ns), lastOp.k, lastOp.value)

\* a write into one namespace while another namespace holds a record
C15_Witness ==
  /\ lastOp.name = "storeWrite" /\ bound
  /\ state # lastOp.stateBefore
  /\ \E B \in Namespaces \ {lastOp.ns} : getState(state, B) # EmptyRec

\* C16: no namespace record of the store holds a key whose value is null or
\* undefined: writing null/undefined for (namespace, key) deletes the key,
\* so the record has no such property afterwards.
C16_NoNullEntries ==
  /\ \A c \in DOMAIN state : \A k \in DOMAIN state[c] : hasValue(state[c][k])
  /\ (lastOp.name = "storeWrite" /\ ~hasValue(lastOp.value)) =>
       lastOp.k \notin DOMAIN getState(state, lastOp.ns)

\* a null/undefined written over a key the record held
C16_Witness ==
  /\ lastOp.name = "storeWrite" /\ ~hasValue(lastOp.value)
  /\ lastOp.k \in DOMAIN getState(lastOp.stateBefore, lastOp.ns)
  /\ lastOp.k \notin DOMAIN getState(state, lastOp.ns)

\* C20: every mutation of the aggregated store is followed by a save of the
\* whole document: after a write, the document handed last to the file-write
\* primitive is the plain form of the in-memory map, also for a write made
\* before the store's init() has loaded the file and bound the save reaction.
C20_SaveAfterEveryMutation ==
  lastOp.name = "storeWrite" =>
    /\ lastOp.saves >= 1
    /\ file = toJSON(state)

\* the revision of src/src/renderer/utils/createStorage.ts runs
Gated == revision = "gated"

C22_EqualSetIsNoChange ==
  (Gated /\ lastOp.name = "set" /\ lastOp.initBefore /\ ~lastOp.changed) =>
    /\ data = lastOp.value
    /\ lastOp.writes = <<>>
    /\ lastOp.hooks = <<>>
    /\ lastOp.saves = 0
    /\ ~lastOp.threw

\* set(V) on an initialized helper that held V, the backend holding V too
C22_Witness ==
  /\ Gated /\ lastOp.name = "set" /\ lastOp.initBefore /\ ~lastOp.changed
  /\ data = lastOp.value
  /\ getItem(World) = [value |-> data, threw |-> FALSE]

====
